---- MODULE Spec2Model ----
(***************************************************************************)
(* The MySQL database secrets plugin (package mysql): the lifecycle        *)
(* operations NewUser, UpdateUser and DeleteUser running concurrently on   *)
(* one plugin instance, against a transactional backend reached through    *)
(* database/sql.                                                           *)
(*                                                                         *)
(* A template string is a sequence of tokens: the separator ";", the       *)
(* whitespace token " ", placeholder tokens such as "{{name}}", and        *)
(* literal text.  An error value is a sequence of message parts, the nil   *)
(* error being the empty sequence.                                         *)
(***************************************************************************)
EXTENDS Integers, Sequences, FiniteSets, TLC

\* Number of concurrent calls the host issues against the instance.
NumCalls == 2

Calls == 1..NumCalls

NULL == "NULL"

nil == <<>>

Range(s) == {s[i] : i \in DOMAIN s}

----------------------------------------------------------------------------
\* Program constants.

defaultMysqlRevocationStmts ==
    << " ", "REVOKE ALL PRIVILEGES, GRANT OPTION FROM '", "{{name}}", "'@'%'", ";",
       " ", "DROP USER '", "{{name}}", "'@'%'", " " >>

defaultMySQLRotateCredentialsSQL ==
    << " ", "ALTER USER '", "{{username}}", "'@'%' IDENTIFIED BY '", "{{password}}", "'", ";", " " >>

mySQLTypeName == "mysql"

\* MySQL error 1295: the command is not supported in the prepared statement
\* protocol.
ErrNotPreparable == 1295

ErrEmptyCreationStatement == <<"empty creation statements">>

ErrNoChange == <<"no change requested">>

ErrMissingCredentials == <<"must provide both username and password">>

\* fmt.Errorf("failed to change password: %w", err)
WrapChangePassword(err) == <<"failed to change password: ">> \o err

\* errwrap.Wrapf("error generating username: {{err}}", err)
WrapGenerateUsername(err) == <<"error generating username: ">> \o err

----------------------------------------------------------------------------
\* Statement rendering.

\* strutil.ParseArbitraryStringSlice(stmt, ";"): the fragments of a template
\* between separators, in order.
RECURSIVE SplitFrom(_, _, _, _)
SplitFrom(s, sep, i, cur) ==
    IF i > Len(s) THEN <<cur>>
    ELSE IF s[i] = sep THEN <<cur>> \o SplitFrom(s, sep, i + 1, <<>>)
    ELSE SplitFrom(s, sep, i + 1, Append(cur, s[i]))

ParseArbitraryStringSlice(s, sep) == SplitFrom(s, sep, 1, <<>>)

IsSpace(tok) == tok = " "

\* strings.TrimSpace: drops leading and trailing whitespace.
RECURSIVE TrimLeft(_)
TrimLeft(q) ==
    IF q # <<>> /\ IsSpace(Head(q)) THEN TrimLeft(Tail(q)) ELSE q

RECURSIVE TrimRight(_)
TrimRight(q) ==
    IF q # <<>> /\ IsSpace(q[Len(q)]) THEN TrimRight(SubSeq(q, 1, Len(q) - 1)) ELSE q

\* The fragment is taken as it is.
TrimSpace_None(q) == q

TrimSpace(q) == TrimRight(TrimLeft(q))

\* The placeholder token of a substitution key.
Placeholder(k) == "{{" \o k \o "}}"

\* strings.Replace(q, old, new, -1)
Replace(q, old, new) == [i \in DOMAIN q |-> IF q[i] = old THEN new ELSE q[i]]

\* dbutil.QueryHelper: every {{key}} of the map is replaced by its value.
QueryHelper(q, queryMap) ==
    [i \in DOMAIN q |->
        IF \E k \in DOMAIN queryMap : q[i] = Placeholder(k)
        THEN queryMap[CHOOSE k \in DOMAIN queryMap : q[i] = Placeholder(k)]
        ELSE q[i]]

\* The trimmed, non-empty fragments of one template.
RECURSIVE NonEmptyTrimmed(_)
NonEmptyTrimmed(frags) ==
    IF frags = <<>> THEN <<>>
    ELSE LET query == TrimSpace(Head(frags))
         IN  (IF Len(query) = 0 THEN <<>> ELSE <<query>>) \o NonEmptyTrimmed(Tail(frags))

RECURSIVE Queries(_)
Queries(statements) ==
    IF statements = <<>> THEN <<>>
    ELSE NonEmptyTrimmed(ParseArbitraryStringSlice(Head(statements), ";"))
            \o Queries(Tail(statements))

\* The queries executePreparedStatementsWithMap sends, in order.
PreparedQueries(statements, queryMap) ==
    LET qs == Queries(statements)
    IN  [i \in DOMAIN qs |-> QueryHelper(qs[i], queryMap)]

\* The queries DeleteUser sends, in order.
RevocationQueries(statements, username) ==
    LET qs == Queries(statements)
    IN  [i \in DOMAIN qs |-> Replace(Replace(qs[i], "{{name}}", username), "{{username}}", username)]

----------------------------------------------------------------------------
\* Requests the host sends.

TBlank == << " ", ";", " " >>

TCreateGrant ==
    << "CREATE USER '", "{{name}}", "'@'%' IDENTIFIED BY '", "{{password}}", "'", ";",
       " ", "GRANT SELECT ON *.* TO '", "{{name}}", "'@'%'", ";" >>

TRotate == << "SET PASSWORD FOR '", "{{username}}", "'@'%' = PASSWORD('", "{{password}}", "')" >>

TFlush == << " ", "FLUSH PRIVILEGES", " ", ";", ";" >>

TDrop == << "DROP USER '", "{{username}}", "'@'%'", ";", " " >>

NewUserRequests ==
    [op : {"NewUser"}, username : {NULL},
     commands : {<<>>, <<TBlank>>, <<TBlank, TCreateGrant>>},
     password : {"p1"}, expiration : {"2026-11-05"}]

\* Without a password change (no change at all, or an expiration change
\* alone), and with one: the username or the new password may be empty.
UpdateUserRequests ==
    [op : {"UpdateUser"}, username : {"u1"}, commands : {<<>>},
     password : {NULL}, expiration : {NULL, "2026-11-05"}]
    \cup
    [op : {"UpdateUser"}, username : {"", "u1"}, commands : {<<>>, <<TRotate, TFlush>>},
     password : {"", "p1"}, expiration : {NULL, "2026-11-05"}]

DeleteUserRequests ==
    [op : {"DeleteUser"}, username : {"u1"}, commands : {<<>>, <<TDrop>>},
     password : {NULL}, expiration : {NULL}]

NoRequest == [op |-> NULL, username |-> NULL, commands |-> <<>>, password |-> NULL, expiration |-> NULL]

\* credsutil.GenerateUsername: a username that ends in a uniqueness suffix,
\* or an error.
GenerateUsernameResults ==
    { [username |-> "v-token-role-x7Qe", err |-> nil],
      [username |-> "", err |-> <<"unable to generate username">>] }

----------------------------------------------------------------------------
\* State.

VARIABLES
    lock,   \* the mutex of the connection producer: 0 when free, else the call that holds it
    conn,   \* the cached connection handle of the connection producer: "none" or "open"
    db,     \* the backend table: the statements of the committed transactions, in
            \* order, each with the call whose transaction applied it
    call,   \* per call: position, request, transaction, deferred functions,
            \* the lock and backend steps it has taken (trace), result
    ugen,   \* one run of generateUsername: the mode of the instance, the
            \* username configuration of the request, the options passed on
            \* and the result
    plugin, \* a plugin as the host is served it: how it was built, whether a
            \* password is configured, the operation under way and the error
            \* it returns, in two runs that differ in the password alone
    rpc,    \* one call through the generated client and server stubs: the
            \* path invoked, the handler run, the server methods called,
            \* the result
    updater, \* one call of streamStaticSecretEvents: its position, its
            \* context, the attempts to open the connection, what it read and
            \* which secrets it updated (log), the error it returned
    shell   \* the shell running one `retry N cmd` of the install script: the
            \* locals of retry, the runs of cmd and the sleeps so far, and
            \* how retry or the script ended

vars == <<lock, conn, db, call, ugen, plugin, rpc, updater, shell>>

\* The variables of the MySQL instance and its calls.
mysqlVars == <<lock, conn, db, call>>

\* The variables the operations on the instance leave alone.
notMySQL == <<ugen, plugin, rpc, updater, shell>>

\* The variables a run of generateUsername leaves alone.
notUsername == <<lock, conn, db, call, plugin, rpc, updater, shell>>

\* The variables the operations of a served plugin leave alone (the
\* instance behind it is followed by its own specification).
notPlugin == <<lock, conn, db, call, ugen, rpc, updater, shell>>

\* The variables a call through the stubs leaves alone.
notRpc == <<lock, conn, db, call, ugen, plugin, updater, shell>>

\* The variables a call of streamStaticSecretEvents leaves alone.
notUpdater == <<lock, conn, db, call, ugen, plugin, rpc, shell>>

\* The variables a run of retry leaves alone.
notShell == <<lock, conn, db, call, ugen, plugin, rpc, updater>>

NoTx == [status |-> "none", pending |-> <<>>]

IdleCall ==
    [pc |-> "idle", req |-> NoRequest, username |-> "", queries |-> <<>>, qi |-> 1,
     tx |-> NoTx, defers |-> <<>>, cancelled |-> FALSE, trace |-> <<>>,
     result |-> "none", err |-> nil, resp |-> ""]

\* A call whose response the host has received.
GoneCall == [IdleCall EXCEPT !.pc = "gone"]

\* No run of generateUsername is under way.
NoGeneration ==
    [pc |-> "none", legacy |-> FALSE, displayName |-> <<>>, roleName |-> <<>>,
     opts |-> [displayName |-> 0, roleName |-> 0, maxLength |-> 0],
     username |-> <<>>, err |-> nil]

\* The instance after new(legacy): the lock free, no connection handle, no
\* call under way.
InitMySQL ==
    /\ lock = 0
    /\ conn = "none"
    /\ db = <<>>
    /\ call = [c \in Calls |-> IdleCall]

\* No plugin is served.
NoPlugin ==
    [pc |-> "none", entry |-> NULL, served |-> NULL, calls |-> 0,
     op |-> NULL, raw |-> nil, err |-> <<nil, nil>>]

\* No call goes through the stubs.
NoRpc ==
    [pc |-> "none", server |-> NULL, interceptor |-> NULL, method |-> NULL,
     path |-> NULL, handler |-> NULL, decoded |-> NULL, fullMethod |-> NULL,
     called |-> <<>>,
     resp |-> NULL, code |-> NULL, msg |-> NULL]

\* No call of streamStaticSecretEvents is under way.
NoUpdater ==
    [pc |-> "none", cancelled |-> FALSE, opened |-> FALSE, closed |-> FALSE,
     attempts |-> 0, slept |-> 0, log |-> <<>>, path |-> NULL, err |-> nil]

\* No shell runs retry.
NoShell ==
    [pc |-> "none", retries |-> 0, count |-> 0, exit |-> 0, wait |-> 0,
     runs |-> <<>>, sleeps |-> <<>>, status |-> NULL]

Init ==
    /\ InitMySQL
    /\ ugen = NoGeneration
    /\ plugin = NoPlugin
    /\ rpc = NoRpc
    /\ updater = NoUpdater
    /\ shell = NoShell

\* A step of a call: on statement idx (0: on no statement), with its result
\* and, for a failed prepare, the number of the MySQL error.
Entry(step, idx, res) == [step |-> step, idx |-> idx, res |-> res, errno |-> 0]

PrepareFailure(idx, number) == [step |-> "Prepare", idx |-> idx, res |-> "err", errno |-> number]

----------------------------------------------------------------------------
\* Returning from an operation.

\* tx.Rollback(): discards the statements of an open transaction; on a
\* transaction that is already resolved it returns ErrTxDone and does nothing.
Rollback(t) ==
    IF t.status = "open" THEN [t EXCEPT !.status = "rolledback", !.pending = <<>>] ELSE t

\* The deferred unlock is forgotten.
DeferUnlock_Forgotten(defers) == defers

\* defer m.Unlock()
DeferUnlock(defers) == Append(defers, "Unlock")

\* The deferred rollback is forgotten.
DeferRollback_Forgotten(defers) == defers

\* defer tx.Rollback()
DeferRollback(defers) == Append(defers, "Rollback")

\* The deferred calls run last-registered first.
RECURSIVE DeferredEntries(_)
DeferredEntries(defers) ==
    IF defers = <<>> THEN <<>>
    ELSE <<Entry(defers[Len(defers)], 0, "ok")>>
            \o DeferredEntries(SubSeq(defers, 1, Len(defers) - 1))

\* What NewUser, UpdateUser and DeleteUser make of the error of the body.
OpError(op, err) ==
    IF err = nil THEN nil
    ELSE IF op = "UpdateUser" THEN WrapChangePassword(err)
    ELSE err

\* The username is returned whatever the error.
OpResponse_Always(op, err, username) == IF op = "NewUser" THEN username ELSE ""

\* NewUserResponse{Username: username} on success, the empty response otherwise.
OpResponse(op, err, username) ==
    IF op = "NewUser" /\ err = nil THEN username ELSE ""

\* Call c in state cr leaves its operation with error err (nil for success),
\* or with a panic: the deferred calls run, then the result reaches the caller.
Leave(c, cr, entries, err, panicked) ==
    /\ call' = [call EXCEPT ![c] =
                  [cr EXCEPT !.pc = "done",
                             !.tx = IF "Rollback" \in Range(cr.defers) THEN Rollback(cr.tx) ELSE cr.tx,
                             !.defers = <<>>,
                             !.trace = cr.trace \o entries \o DeferredEntries(cr.defers),
                             !.result = IF panicked THEN "panic"
                                        ELSE IF err = nil THEN "ok" ELSE "error",
                             !.err = IF panicked THEN nil ELSE err,
                             !.resp = IF panicked THEN "" ELSE OpResponse(cr.req.op, err, cr.username)]]
    /\ lock' = IF "Unlock" \in Range(cr.defers) THEN 0 ELSE lock

\* A return of the body (generateUsername, changeUserPassword,
\* executePreparedStatementsWithMap, the locked part of DeleteUser) with
\* error err: the operation makes its own error of it.
Return(c, cr, entries, err) == Leave(c, cr, entries, OpError(cr.req.op, err), FALSE)

\* A return at a check of the operation itself: the error is returned as it is.
Reject(c, cr, err) == Leave(c, cr, <<>>, err, FALSE)

Panic(c, cr, entries) == Leave(c, cr, entries, nil, TRUE)

----------------------------------------------------------------------------
\* Entry of the three operations: the checks made before the lock is taken.

\* len(req.Statements.Commands) == 0
EmptyCreationStatements(commands) == Len(commands) = 0

\* The no-change check is missing.
NoChangeRequested_Never(req) == FALSE

\* req.Password == nil && req.Expiration == nil
NoChangeRequested(req) == req.password = NULL /\ req.expiration = NULL

\* Only the username is checked.
MissingCredentials_UsernameOnly(username, password) == username = ""

\* username == "" || password == ""
MissingCredentials(username, password) == username = "" \/ password = ""

\* Every request is taken to change the password.
PasswordChange_Always(req) == TRUE

\* req.Password != nil
PasswordChange(req) == req.password # NULL

\* The substitution map NewUser builds.
NewUserQueryMap(username, req) ==
    [name |-> username, username |-> username, password |-> req.password,
     expiration |-> req.expiration]

\* The substitution map changeUserPassword builds.
ChangePasswordQueryMap(username, password) ==
    [name |-> username, username |-> username, password |-> password]

\* The rotation statements changeUserPassword runs.
RotateStatements(commands) ==
    IF Len(commands) = 0 THEN <<defaultMySQLRotateCredentialsSQL>> ELSE commands

\* The statements of the request are run as given, even when there are none.
RevocationStatements_AsGiven(commands) == commands

\* The revocation statements DeleteUser runs.
RevocationStatements(commands) ==
    IF Len(commands) = 0 THEN <<defaultMysqlRevocationStmts>> ELSE commands

\* A call has returned and its response is on the way to the host.
ResponsePending == \E c \in Calls : call[c].pc = "done"

\* Call c is at position pc and takes the next step.  A response is
\* delivered as soon as the call has returned, before any other call takes a
\* step: nothing else reads the frame of a call that has returned.
At(c, pc) == ~ResponsePending /\ call[c].pc = pc

\* The calls are numbered in the order the host issues them.
Issued(c) == At(c, "idle") /\ \A d \in Calls : d < c => call[d].pc # "idle"

\* The call goes on to m.Lock().
Enter(c, cr) ==
    /\ call' = [call EXCEPT ![c] = [cr EXCEPT !.pc = "lock"]]
    /\ UNCHANGED lock

NewUser(c) ==
    /\ Issued(c)
    /\ \E req \in NewUserRequests, gen \in GenerateUsernameResults :
          LET cr == [call[c] EXCEPT !.req = req]
          IN  IF EmptyCreationStatements(req.commands)
              THEN Reject(c, cr, ErrEmptyCreationStatement)
              ELSE IF gen.err # nil
              THEN Return(c, cr, <<>>, WrapGenerateUsername(gen.err))
              ELSE Enter(c, [cr EXCEPT
                      !.username = gen.username,
                      !.queries = PreparedQueries(req.commands,
                                      NewUserQueryMap(gen.username, req))])
    /\ UNCHANGED <<conn, db>>
    /\ UNCHANGED notMySQL

UpdateUser(c) ==
    /\ Issued(c)
    /\ \E req \in UpdateUserRequests :
          LET cr == [call[c] EXCEPT !.req = req, !.username = req.username]
          IN  IF NoChangeRequested(req)
              THEN Reject(c, cr, ErrNoChange)
              ELSE IF ~PasswordChange(req)
              THEN Return(c, cr, <<>>, nil)
              ELSE IF MissingCredentials(req.username, req.password)
              THEN Return(c, cr, <<>>, ErrMissingCredentials)
              ELSE Enter(c, [cr EXCEPT
                      !.queries = PreparedQueries(RotateStatements(req.commands),
                                      ChangePasswordQueryMap(req.username, req.password))])
    /\ UNCHANGED <<conn, db>>
    /\ UNCHANGED notMySQL

DeleteUser(c) ==
    /\ Issued(c)
    /\ \E req \in DeleteUserRequests :
          Enter(c, [call[c] EXCEPT
                      !.req = req, !.username = req.username,
                      !.queries = RevocationQueries(RevocationStatements(req.commands),
                                                    req.username)])
    /\ UNCHANGED <<conn, db>>
    /\ UNCHANGED notMySQL

\* Type fails.
TypeReturn_Error == [name |-> "", err |-> <<"type not available">>]

\* return mySQLTypeName, nil
TypeReturn == [name |-> mySQLTypeName, err |-> nil]

\* Type(): returns at once; it takes no lock and reads no field of the
\* instance.
Type(c) ==
    /\ Issued(c)
    /\ call' = [call EXCEPT ![c] =
                  [call[c] EXCEPT !.pc = "done",
                                  !.req = [NoRequest EXCEPT !.op = "Type"],
                                  !.result = IF TypeReturn.err = nil THEN "ok" ELSE "error",
                                  !.err = TypeReturn.err,
                                  !.resp = TypeReturn.name]]
    /\ UNCHANGED <<lock, conn, db>>
    /\ UNCHANGED notMySQL

\* The host cancels the context of a call that is under way.
Cancel(c) ==
    /\ ~ResponsePending
    /\ call[c].pc \notin {"idle", "gone"}
    /\ ~call[c].cancelled
    /\ call' = [call EXCEPT ![c].cancelled = TRUE]
    /\ UNCHANGED <<lock, conn, db>>
    /\ UNCHANGED notMySQL

----------------------------------------------------------------------------
\* The locked body of executePreparedStatementsWithMap and of DeleteUser.

\* The body runs without taking the mutex.
CanLock_Always(l) == TRUE

\* sync.Mutex: Lock returns once no other call holds the mutex.
CanLock(l) == l = 0

\* m.Lock(); defer m.Unlock().  The context plays no part in it.
Lock(c) ==
    /\ At(c, "lock")
    /\ CanLock(lock)
    /\ lock' = c
    /\ call' = [call EXCEPT ![c].pc = "conn", ![c].defers = DeferUnlock(@),
                            ![c].trace = Append(@, Entry("Lock", 0,
                                    IF call[c].cancelled THEN "cancelled" ELSE "ok"))]
    /\ UNCHANGED <<conn, db>>
    /\ UNCHANGED notMySQL

\* The connection producer has no handle and fails to open one.
CannotConnect == conn = "none"

\* m.getConnection(ctx): the cached handle, opened on first use and kept, or
\* an error when no handle can be opened.
GetConnection(c) ==
    /\ At(c, "conn")
    /\ \/ /\ conn' = "open"
          /\ call' = [call EXCEPT ![c].pc = "begin",
                                  ![c].trace = Append(@, Entry("Connection", 0, "ok"))]
          /\ UNCHANGED lock
       \/ /\ CannotConnect
          /\ UNCHANGED conn
          /\ Return(c, call[c], <<Entry("Connection", 0, "err")>>, <<"connection error">>)
    /\ UNCHANGED db
    /\ UNCHANGED notMySQL

\* DeleteUser prepares its statements like the other two operations.
LoopPc_AlwaysPrepare(cr) ==
    IF cr.qi > Len(cr.queries) THEN "commit" ELSE "prepare"

\* The first pc of the statement loop, or of the commit after it.
LoopPc(cr) ==
    IF cr.qi > Len(cr.queries) THEN "commit"
    ELSE IF cr.req.op = "DeleteUser" THEN "exec"
    ELSE "prepare"

\* The error of a backend call that takes the context.
ContextOr(c, err) == IF call[c].cancelled THEN <<"context canceled">> ELSE err

\* db.BeginTx(ctx, nil); defer tx.Rollback().  With a cancelled context no
\* transaction begins.
BeginTx(c) ==
    /\ At(c, "begin")
    /\ \/ /\ ~call[c].cancelled
          /\ LET cr == [call[c] EXCEPT
                          !.tx = [status |-> "open", pending |-> <<>>],
                          !.defers = DeferRollback(@),
                          !.trace = Append(@, Entry("BeginTx", 0, "ok"))]
             IN  call' = [call EXCEPT ![c] = [cr EXCEPT !.pc = LoopPc(cr)]]
          /\ UNCHANGED lock
       \/ Return(c, call[c], <<Entry("BeginTx", 0, "err")>>,
                 ContextOr(c, <<"begin error">>))
    /\ UNCHANGED <<conn, db>>
    /\ UNCHANGED notMySQL

\* The statement is applied inside the transaction; the loop moves on.
Applied(cr, entry) ==
    LET nx == [cr EXCEPT !.tx.pending = Append(@, cr.queries[cr.qi]), !.qi = @ + 1,
                         !.trace = Append(@, entry)]
    IN  [nx EXCEPT !.pc = LoopPc(nx)]

\* Error 1295 is treated like any other error.
IsNotPreparable_Never(number) == FALSE

\* e, ok := err.(*stdmysql.MySQLError); ok && e.Number == 1295
IsNotPreparable(number) == number = ErrNotPreparable

\* The error numbers a failed prepare carries: 1295, or another (1064).
PrepareErrors == {ErrNotPreparable, 1064}

\* tx.PrepareContext(ctx, query) in executePreparedStatementsWithMap.  With
\* a cancelled context it fails with the context's error.
Prepare(c) ==
    /\ At(c, "prepare")
    /\ \/ /\ call[c].cancelled
          /\ Return(c, call[c], <<Entry("Prepare", call[c].qi, "err")>>, <<"context canceled">>)
       \/ /\ ~call[c].cancelled
          /\ call' = [call EXCEPT ![c].pc = "exec",
                                  ![c].trace = Append(@, Entry("Prepare", call[c].qi, "ok"))]
          /\ UNCHANGED lock
       \/ /\ ~call[c].cancelled
          /\ \E number \in PrepareErrors :
                IF IsNotPreparable(number)
                THEN /\ call' = [call EXCEPT ![c].pc = "direct",
                                    ![c].trace = Append(@, PrepareFailure(call[c].qi, number))]
                     /\ UNCHANGED lock
                ELSE Return(c, call[c], <<PrepareFailure(call[c].qi, number)>>,
                            <<"prepare error">>)
    /\ UNCHANGED <<conn, db>>
    /\ UNCHANGED notMySQL

\* stmt.ExecContext(ctx) on the prepared statement, then stmt.Close(); in
\* DeleteUser, tx.ExecContext(ctx, query).
Exec(c) ==
    /\ At(c, "exec")
    /\ \/ /\ ~call[c].cancelled
          /\ call' = [call EXCEPT ![c] = Applied(call[c], Entry("Exec", call[c].qi, "ok"))]
          /\ UNCHANGED lock
       \/ Return(c, call[c], <<Entry("Exec", call[c].qi, "err")>>,
                 ContextOr(c, <<"exec error">>))
    /\ UNCHANGED <<conn, db>>
    /\ UNCHANGED notMySQL

\* tx.ExecContext(ctx, query) after error 1295.  On failure the code calls
\* stmt.Close() on the nil statement the failed prepare returned, which
\* panics with a nil pointer dereference.
ExecDirect(c) ==
    /\ At(c, "direct")
    /\ \/ /\ ~call[c].cancelled
          /\ call' = [call EXCEPT ![c] = Applied(call[c], Entry("ExecDirect", call[c].qi, "ok"))]
          /\ UNCHANGED lock
       \/ Panic(c, call[c], <<Entry("ExecDirect", call[c].qi, "err")>>)
    /\ UNCHANGED <<conn, db>>
    /\ UNCHANGED notMySQL

\* tx.Commit(): the statements of the transaction reach the table, or the
\* commit fails and the transaction is resolved without them.
Commit(c) ==
    /\ At(c, "commit")
    /\ \/ /\ ~call[c].cancelled
          /\ db' = db \o [i \in DOMAIN call[c].tx.pending |->
                              [call |-> c, query |-> call[c].tx.pending[i]]]
          /\ Return(c, [call[c] EXCEPT !.tx.status = "committed"],
                    <<Entry("Commit", 0, "ok")>>, nil)
       \/ /\ UNCHANGED db
          /\ Return(c, [call[c] EXCEPT !.tx.status = "failed", !.tx.pending = <<>>],
                    <<Entry("Commit", 0, "err")>>, ContextOr(c, <<"commit error">>))
    /\ UNCHANGED conn
    /\ UNCHANGED notMySQL

\* The response of a call that has returned reaches the host.  The plugin
\* keeps nothing of the call; what it committed stays in the backend table.
Deliver(c) ==
    /\ call[c].pc = "done"
    /\ call' = [call EXCEPT ![c] = GoneCall]
    /\ UNCHANGED <<lock, conn, db>>
    /\ UNCHANGED notMySQL

Next ==
    \E c \in Calls :
        \/ NewUser(c)
        \/ UpdateUser(c)
        \/ DeleteUser(c)
        \/ Type(c)
        \/ Cancel(c)
        \/ Lock(c)
        \/ GetConnection(c)
        \/ BeginTx(c)
        \/ Prepare(c)
        \/ Exec(c)
        \/ ExecDirect(c)
        \/ Commit(c)
        \/ Deliver(c)

Spec == Init /\ [][Next]_vars

----------------------------------------------------------------------------
\* Username generation: generateUsername as NewUser calls it, over the
\* display names and role names of a request and both modes of the instance.
\* A name is a sequence of characters: "d" for a character of the display
\* name, "r" for one of the role name, "x" for one of the uniqueness suffix.

MetadataLen == 10

LegacyMetadataLen == 4

UsernameLen == 32

LegacyUsernameLen == 16

\* The longest display name and the longest role name of a request.
MaxDisplayNameLen == 33

MaxRoleNameLen == 11

\* The string of n characters ch.
Chars(ch, n) == [i \in 1..n |-> ch]

\* The first n characters of s, or s when it has no more.
Trunc(s, n) == SubSeq(s, 1, IF Len(s) < n THEN Len(s) ELSE n)

\* The uniqueness suffix of a generated username.
UniqueSuffix == Chars("x", 4)

\* The assembled name is cut at the maximum length, the suffix with it.
GenerateUsername_TruncateTail(displayName, roleName, opts) ==
    [username |-> Trunc(Trunc(displayName, opts.displayName)
                          \o Trunc(roleName, opts.roleName) \o UniqueSuffix,
                        opts.maxLength),
     err |-> nil]

\* credsutil.GenerateUsername(DisplayName(..), RoleName(..), MaxLength(..)):
\* the display name and the role name, each cut to its own length, then the
\* uniqueness suffix; what exceeds the maximum length is taken from the
\* human-readable part, and the generation fails when the suffix alone does
\* not fit.
GenerateUsername(displayName, roleName, opts) ==
    LET human == Trunc(displayName, opts.displayName) \o Trunc(roleName, opts.roleName)
        room == opts.maxLength - Len(UniqueSuffix)
    IN  IF room < 0
        THEN [username |-> <<>>, err |-> <<"unable to generate username">>]
        ELSE [username |-> Trunc(human, room) \o UniqueSuffix, err |-> nil]

\* The options of the current mode are passed whatever the mode.
UsernameOpts_NoLegacy(legacy) ==
    [displayName |-> UsernameLen, roleName |-> MetadataLen, maxLength |-> UsernameLen]

\* The options generateUsername passes: credsutil.DisplayName,
\* credsutil.RoleName and credsutil.MaxLength, by the mode of the instance.
UsernameOpts(legacy) ==
    IF legacy
    THEN [displayName |-> LegacyUsernameLen, roleName |-> LegacyMetadataLen,
          maxLength |-> LegacyUsernameLen]
    ELSE [displayName |-> UsernameLen, roleName |-> MetadataLen, maxLength |-> UsernameLen]

\* m.generateUsername(req)
generateUsername(legacy, displayName, roleName) ==
    LET res == GenerateUsername(displayName, roleName, UsernameOpts(legacy))
    IN  IF res.err # nil
        THEN [username |-> <<>>, err |-> WrapGenerateUsername(res.err)]
        ELSE [username |-> res.username, err |-> nil]

\* The username configurations of a request, on an instance of either mode.
UsernameRequests ==
    [pc : {"call"}, legacy : BOOLEAN,
     displayName : {Chars("d", n) : n \in 0..MaxDisplayNameLen},
     roleName : {Chars("r", n) : n \in 0..MaxRoleNameLen},
     opts : {NoGeneration.opts}, username : {<<>>}, err : {nil}]

UsernameInit ==
    /\ InitMySQL
    /\ ugen \in UsernameRequests
    /\ plugin = NoPlugin
    /\ rpc = NoRpc
    /\ updater = NoUpdater
    /\ shell = NoShell

\* NewUser calls m.generateUsername(req).
NewUserGeneratesUsername ==
    /\ ugen.pc = "call"
    /\ LET res == generateUsername(ugen.legacy, ugen.displayName, ugen.roleName)
       IN  ugen' = [ugen EXCEPT !.pc = "done", !.opts = UsernameOpts(ugen.legacy),
                                !.username = res.username, !.err = res.err]
    /\ UNCHANGED notUsername

UsernameNext == NewUserGeneratesUsername

UsernameSpec == UsernameInit /\ [][UsernameNext]_vars

----------------------------------------------------------------------------
\* The plugin as it is built and served: New, Run and RunLegacy, and the
\* error-sanitizing middleware around the six operations.  Two runs are
\* followed side by side that differ in the configured password alone; the
\* text of an error is given with the place of the password left open.

\* The password of the configuration in run 1 and in run 2.
SecretOfRun == <<"hunter2", "correct-horse">>

\* The place of the configured password in the text of an error.
ThePassword == "<password>"

\* The number of operations the host calls on a served plugin.
MaxPluginCalls == 2

PluginOps == {"Initialize", "NewUser", "UpdateUser", "DeleteUser", "Type", "Close"}

\* new(legacy): the instance, its connection producer without a configuration.
new(legacy) == [legacy |-> legacy, configured |-> FALSE]

\* The instance is returned as it is, without the middleware.
New_Unwrapped(legacy) == [db |-> new(legacy), sanitizer |-> FALSE]

\* New(legacy)(): the instance wrapped by
\* NewDatabaseErrorSanitizerMiddleware(db, db.SecretValues).
New(legacy) == [db |-> new(legacy), sanitizer |-> TRUE]

\* runCommon serves what New(legacy) builds.
runCommon(legacy) == New(legacy)

Run == runCommon(FALSE)

RunLegacy == runCommon(TRUE)

\* The plugins a host can be served, by the way they were built.
ServedPlugins ==
    {[entry |-> "New", served |-> New(legacy)] : legacy \in BOOLEAN}
        \cup {[entry |-> "Run", served |-> Run], [entry |-> "RunLegacy", served |-> RunLegacy]}

\* The errors an operation of the instance returns, before the middleware:
\* none, its own errors, and errors of the driver that quote the password of
\* the connection.
InnerErrors(op, configured) ==
    {nil} \cup
    (CASE op = "Type" -> {}
       [] op = "Initialize" ->
            { <<"error verifying connection: dial tcp root:", ThePassword, "@db:3306">>,
              <<"error verifying connection: i/o timeout">> }
       [] op = "Close" -> { <<"close error">> }
       [] op = "NewUser" -> { ErrEmptyCreationStatement, WrapGenerateUsername(<<"unable to generate username">>) }
       [] op = "UpdateUser" -> { ErrNoChange, WrapChangePassword(ErrMissingCredentials) }
       [] op = "DeleteUser" -> { <<"exec error">> })
    \cup
    (IF configured /\ op \in {"NewUser", "UpdateUser", "DeleteUser"}
     THEN LET denied == <<"Error 1045: Access denied for user 'root' (using password: ",
                          ThePassword, ")">>
          IN  {IF op = "UpdateUser" THEN WrapChangePassword(denied) ELSE denied}
     ELSE {})

\* The text of the error in a run with the given password.
Instantiate(raw, password) ==
    [i \in DOMAIN raw |-> IF raw[i] = ThePassword THEN password ELSE raw[i]]

\* db.SecretValues(): the configured password, with its placeholder.
SecretValues(instance, password) ==
    IF instance.configured THEN [secret \in {password} |-> "[password]"]
    ELSE [secret \in {} |-> ""]

\* The middleware's sanitizing of an error: every secret value in the text
\* is replaced by its placeholder.
Sanitize(err, secretValues) ==
    [i \in DOMAIN err |->
        IF err[i] \in DOMAIN secretValues THEN secretValues[err[i]] ELSE err[i]]

\* The error that leaves the served plugin.
Outgoing(served, err, password) ==
    IF served.sanitizer THEN Sanitize(err, SecretValues(served.db, password)) ELSE err

PluginInit ==
    /\ InitMySQL
    /\ ugen = NoGeneration
    /\ rpc = NoRpc
    /\ updater = NoUpdater
    /\ shell = NoShell
    /\ plugin \in {[NoPlugin EXCEPT !.pc = "serving", !.entry = p.entry, !.served = p.served] :
                        p \in ServedPlugins}

\* The host calls an operation of the served plugin.  Initialize stores
\* the configuration, whether or not the connection can then be verified.
PluginCall ==
    /\ plugin.pc = "serving"
    /\ plugin.calls < MaxPluginCalls
    /\ \E op \in PluginOps :
          LET instance == IF op = "Initialize"
                          THEN [plugin.served.db EXCEPT !.configured = TRUE]
                          ELSE plugin.served.db
              served == [plugin.served EXCEPT !.db = instance]
          IN  \E raw \in InnerErrors(op, instance.configured) :
                 plugin' = [plugin EXCEPT
                              !.pc = "returned", !.served = served, !.calls = @ + 1,
                              !.op = op, !.raw = raw,
                              !.err = [i \in 1..2 |->
                                         Outgoing(served, Instantiate(raw, SecretOfRun[i]),
                                                  SecretOfRun[i])]]
    /\ UNCHANGED notPlugin

\* The host has the result of the operation.
PluginReturn ==
    /\ plugin.pc = "returned"
    /\ plugin' = [plugin EXCEPT !.pc = "serving", !.op = NULL, !.raw = nil,
                                !.err = <<nil, nil>>]
    /\ UNCHANGED notPlugin

PluginNext == PluginCall \/ PluginReturn

PluginSpec == PluginInit /\ [][PluginNext]_vars

----------------------------------------------------------------------------
\* The generated client and server stubs of the service dbplugin.v5.Database:
\* one call from a client method through the registered handler to the
\* server.

\* The methods of DatabaseClient and DatabaseServer.
RpcMethods == {"Initialize", "NewUser", "UpdateUser", "DeleteUser", "Type", "Close"}

\* databaseClient.X: the path it passes to cc.Invoke.
ClientPath ==
    "Initialize" :> "/dbplugin.v5.Database/Initialize" @@
    "NewUser" :> "/dbplugin.v5.Database/NewUser" @@
    "UpdateUser" :> "/dbplugin.v5.Database/UpdateUser" @@
    "DeleteUser" :> "/dbplugin.v5.Database/DeleteUser" @@
    "Type" :> "/dbplugin.v5.Database/Type" @@
    "Close" :> "/dbplugin.v5.Database/Close"

\* The response type of each method of DatabaseServer.
ResponseType ==
    "Initialize" :> "InitializeResponse" @@
    "NewUser" :> "NewUserResponse" @@
    "UpdateUser" :> "UpdateUserResponse" @@
    "DeleteUser" :> "DeleteUserResponse" @@
    "Type" :> "TypeResponse" @@
    "Close" :> "Empty"

\* Close answers with an empty response and no error.
UnimplementedDatabaseServer_CloseSucceeds ==
    "Initialize" :> [resp |-> NULL, code |-> "Unimplemented", msg |-> "method Initialize not implemented"] @@
    "NewUser" :> [resp |-> NULL, code |-> "Unimplemented", msg |-> "method NewUser not implemented"] @@
    "UpdateUser" :> [resp |-> NULL, code |-> "Unimplemented", msg |-> "method UpdateUser not implemented"] @@
    "DeleteUser" :> [resp |-> NULL, code |-> "Unimplemented", msg |-> "method DeleteUser not implemented"] @@
    "Type" :> [resp |-> NULL, code |-> "Unimplemented", msg |-> "method Type not implemented"] @@
    "Close" :> [resp |-> "Empty", code |-> "OK", msg |-> ""]

\* UnimplementedDatabaseServer.X: return nil, status.Errorf(codes.Unimplemented, ..).
UnimplementedDatabaseServer ==
    "Initialize" :> [resp |-> NULL, code |-> "Unimplemented", msg |-> "method Initialize not implemented"] @@
    "NewUser" :> [resp |-> NULL, code |-> "Unimplemented", msg |-> "method NewUser not implemented"] @@
    "UpdateUser" :> [resp |-> NULL, code |-> "Unimplemented", msg |-> "method UpdateUser not implemented"] @@
    "DeleteUser" :> [resp |-> NULL, code |-> "Unimplemented", msg |-> "method DeleteUser not implemented"] @@
    "Type" :> [resp |-> NULL, code |-> "Unimplemented", msg |-> "method Type not implemented"] @@
    "Close" :> [resp |-> NULL, code |-> "Unimplemented", msg |-> "method Close not implemented"]

\* The closure the UpdateUser handler hands to the interceptor calls NewUser.
Handlers_CopyPaste ==
    "_Database_Initialize_Handler" :>
        [in |-> "InitializeRequest", direct |-> "Initialize", fullMethod |-> "/dbplugin.v5.Database/Initialize", wrapped |-> "Initialize"] @@
    "_Database_NewUser_Handler" :>
        [in |-> "NewUserRequest", direct |-> "NewUser", fullMethod |-> "/dbplugin.v5.Database/NewUser", wrapped |-> "NewUser"] @@
    "_Database_UpdateUser_Handler" :>
        [in |-> "UpdateUserRequest", direct |-> "UpdateUser", fullMethod |-> "/dbplugin.v5.Database/UpdateUser", wrapped |-> "NewUser"] @@
    "_Database_DeleteUser_Handler" :>
        [in |-> "DeleteUserRequest", direct |-> "DeleteUser", fullMethod |-> "/dbplugin.v5.Database/DeleteUser", wrapped |-> "DeleteUser"] @@
    "_Database_Type_Handler" :>
        [in |-> "Empty", direct |-> "Type", fullMethod |-> "/dbplugin.v5.Database/Type", wrapped |-> "Type"] @@
    "_Database_Close_Handler" :>
        [in |-> "Empty", direct |-> "Close", fullMethod |-> "/dbplugin.v5.Database/Close", wrapped |-> "Close"]

\* _Database_X_Handler: the request type it decodes, the server method it
\* calls without an interceptor, the FullMethod it tells the interceptor and
\* the server method the closure handed to the interceptor calls.
Handlers ==
    "_Database_Initialize_Handler" :>
        [in |-> "InitializeRequest", direct |-> "Initialize", fullMethod |-> "/dbplugin.v5.Database/Initialize", wrapped |-> "Initialize"] @@
    "_Database_NewUser_Handler" :>
        [in |-> "NewUserRequest", direct |-> "NewUser", fullMethod |-> "/dbplugin.v5.Database/NewUser", wrapped |-> "NewUser"] @@
    "_Database_UpdateUser_Handler" :>
        [in |-> "UpdateUserRequest", direct |-> "UpdateUser", fullMethod |-> "/dbplugin.v5.Database/UpdateUser", wrapped |-> "UpdateUser"] @@
    "_Database_DeleteUser_Handler" :>
        [in |-> "DeleteUserRequest", direct |-> "DeleteUser", fullMethod |-> "/dbplugin.v5.Database/DeleteUser", wrapped |-> "DeleteUser"] @@
    "_Database_Type_Handler" :>
        [in |-> "Empty", direct |-> "Type", fullMethod |-> "/dbplugin.v5.Database/Type", wrapped |-> "Type"] @@
    "_Database_Close_Handler" :>
        [in |-> "Empty", direct |-> "Close", fullMethod |-> "/dbplugin.v5.Database/Close", wrapped |-> "Close"]

Database_ServiceDesc ==
    [ServiceName |-> "dbplugin.v5.Database",
     Methods |->
      << [MethodName |-> "Initialize", Handler |-> "_Database_Initialize_Handler"],
         [MethodName |-> "NewUser", Handler |-> "_Database_NewUser_Handler"],
         [MethodName |-> "UpdateUser", Handler |-> "_Database_UpdateUser_Handler"],
         [MethodName |-> "DeleteUser", Handler |-> "_Database_DeleteUser_Handler"],
         [MethodName |-> "Type", Handler |-> "_Database_Type_Handler"],
         [MethodName |-> "Close", Handler |-> "_Database_Close_Handler"] >>,
     Streams |-> <<>>]

\* The handler the server runs for a path: the one registered by
\* RegisterDatabaseServer under the service name and method name of the path.
Route(path) ==
    LET desc == Database_ServiceDesc
        found == {i \in DOMAIN desc.Methods :
                     "/" \o desc.ServiceName \o "/" \o desc.Methods[i].MethodName = path}
    IN  IF found = {} THEN NULL ELSE desc.Methods[CHOOSE i \in found : TRUE].Handler

\* The servers registered: UnimplementedDatabaseServer alone, or an
\* implementation of DatabaseServer.  The interceptor: none, one that calls
\* the handler it is given, or one that answers by itself.
RpcInit ==
    /\ InitMySQL
    /\ ugen = NoGeneration
    /\ plugin = NoPlugin
    /\ updater = NoUpdater
    /\ shell = NoShell
    /\ rpc \in {[NoRpc EXCEPT !.pc = "idle", !.server = sv, !.interceptor = ic] :
                    sv \in {"unimplemented", "implemented"}, ic \in {"nil", "pass", "reject"}}

\* c.X(ctx, in): the client method invokes its path.
ClientInvoke(method) ==
    /\ rpc.pc = "idle"
    /\ rpc' = [rpc EXCEPT !.pc = "invoked", !.method = method, !.path = ClientPath[method]]
    /\ UNCHANGED notRpc

\* The results of the server's method: those of UnimplementedDatabaseServer,
\* or of an implementation, which answers or fails.
ServerResults(server, method) ==
    IF server = "unimplemented" THEN {UnimplementedDatabaseServer[method]}
    ELSE { [resp |-> ResponseType[method], code |-> "OK", msg |-> ""],
           [resp |-> NULL, code |-> "Unknown", msg |-> "operation failed"] }

\* The server runs the handler registered for the path: it decodes the
\* request and calls the server's method, directly or through the
\* interceptor.
Handle ==
    /\ rpc.pc = "invoked"
    /\ LET h == Route(rpc.path)
       IN  IF h = NULL
           THEN rpc' = [rpc EXCEPT !.pc = "handled", !.resp = NULL,
                                   !.code = "Unimplemented", !.msg = "unknown method"]
           ELSE \/ rpc' = [rpc EXCEPT !.pc = "handled", !.handler = h, !.decoded = FALSE,
                                      !.resp = NULL, !.code = "Internal",
                                      !.msg = "failed to unmarshal the received message"]
                \/ /\ rpc.interceptor = "nil"
                   /\ \E res \in ServerResults(rpc.server, Handlers[h].direct) :
                         rpc' = [rpc EXCEPT !.pc = "handled", !.handler = h, !.decoded = TRUE,
                                            !.called = <<Handlers[h].direct>>,
                                            !.resp = res.resp, !.code = res.code, !.msg = res.msg]
                \/ /\ rpc.interceptor = "pass"
                   /\ \E res \in ServerResults(rpc.server, Handlers[h].wrapped) :
                         rpc' = [rpc EXCEPT !.pc = "handled", !.handler = h, !.decoded = TRUE,
                                            !.fullMethod = Handlers[h].fullMethod,
                                            !.called = <<Handlers[h].wrapped>>,
                                            !.resp = res.resp, !.code = res.code, !.msg = res.msg]
                \/ /\ rpc.interceptor = "reject"
                   /\ rpc' = [rpc EXCEPT !.pc = "handled", !.handler = h, !.decoded = TRUE,
                                         !.fullMethod = Handlers[h].fullMethod,
                                         !.resp = NULL, !.code = "PermissionDenied",
                                         !.msg = "rejected by the interceptor"]
    /\ UNCHANGED notRpc

\* cc.Invoke returns: the client method returns out, or nil and the error.
ClientReturn ==
    /\ rpc.pc = "handled"
    /\ rpc' = [rpc EXCEPT !.pc = "returned",
                          !.resp = IF rpc.code = "OK" THEN rpc.resp ELSE NULL]
    /\ UNCHANGED notRpc

RpcNext ==
    \/ \E method \in RpcMethods : ClientInvoke(method)
    \/ Handle
    \/ ClientReturn

RpcSpec == RpcInit /\ [][RpcNext]_vars

----------------------------------------------------------------------------
\* The static secret cache updater: one call of streamStaticSecretEvents.

\* const StaticSecretBackoff = 10 * time.Second, in seconds.
StaticSecretBackoff == 10

\* Failed attempts to open the connection that are followed.
MaxOpenFailures == 3

\* Messages read from the connection that are followed.
MaxMessages == 2

SecretPaths == {"secret/data/foo", "secret/data/bar"}

\* A JSON value as json.Unmarshal stores it in an interface{}: its Go type
\* and its text.  A JSON string "true" is a string, not a bool.
JBool(b) == [type |-> "bool", val |-> IF b THEN "true" ELSE "false"]

JString(s) == [type |-> "string", val |-> s]

JNumber == [type |-> "float64", val |-> "1"]

JAbsent == [type |-> "nil", val |-> ""]

\* v.(bool): the value and whether the assertion held.
AssertBool(v) == [val |-> v.type = "bool" /\ v.val = "true", ok |-> v.type = "bool"]

\* v.(string)
AssertString(v) == [val |-> IF v.type = "string" THEN v.val ELSE "", ok |-> v.type = "string"]

\* A message of the stream: how many of the nested objects (the message
\* itself, "data", "event", "metadata") it has, and, of a message that has
\* them all, the values of "modified" and "path" in the metadata.
Message(depth, modified, path) == [depth |-> depth, modified |-> modified, path |-> path]

\* The example event of the documentation, for path p.
ExampleEvent(p) == Message(4, JString("true"), JString(p))

\* An event whose "modified" is the JSON boolean true.
ModifiedEvent(p) == Message(4, JBool(TRUE), JString(p))

NoMessage == Message(0, JAbsent, JAbsent)

Messages ==
    {Message(d, JAbsent, JAbsent) : d \in 0..3}
        \cup {Message(4, m, p) :
                m \in {JBool(TRUE), JBool(FALSE), JString("true"), JAbsent},
                p \in {JString(s) : s \in SecretPaths} \cup {JNumber, JAbsent}}

\* The errors of the libraries.
ErrDial == <<"failed to WebSocket dial">>

ErrConnRead == <<"failed to get reader">>

ErrSyntax == <<"invalid character">>

ErrClone == <<"clone failed">>

\* fmt.Errorf("error returned when opening event stream web socket, ...: %w", err)
WrapOpen(err) == <<"error returned when opening event stream web socket: ">> \o err

\* fmt.Errorf("error when attempting to read from event stream, reopening websocket: %w", err)
WrapRead(err) == <<"error when attempting to read from event stream, reopening websocket: ">> \o err

\* fmt.Errorf("error when unmarshaling event, message: %s\nerror: %w", ...)
WrapUnmarshal(err) == <<"error when unmarshaling event, message: ">> \o err

\* fmt.Errorf("unexpected event format, message: %s\nerror: %w", ...): an
\* error also when err is nil.
WrapFormat(err) == <<"unexpected event format, message: ">> \o err

\* A step of the call, as logged: an attempt to open, a read, or a call of
\* updateStaticSecret.
LogEntry(step, msg, path, result) ==
    [step |-> step, msg |-> msg, path |-> path, result |-> result]

\* What the vault server may do when asked for a clone and for the secret.
UpdateOutcomes == {"ok", "clone-error", "read-error"}

\* updateStaticSecret(ctx, path): the error it returns.  The error of
\* ReadWithContext is dropped.
updateStaticSecret(outcome) ==
    IF outcome = "clone-error" THEN ErrClone ELSE nil

\* openWebSocketConnection(ctx): the error it returns.
openWebSocketConnection(dialed) ==
    IF dialed THEN nil ELSE WrapOpen(ErrDial)

\* The call gives up at the first failure to open.
OpenLoop_GiveUp(u, err) ==
    IF err # nil
    THEN [u EXCEPT !.pc = "returned", !.err = err, !.attempts = @ + 1,
                   !.log = Append(@, LogEntry("Open", NoMessage, NULL, "error"))]
    ELSE [u EXCEPT !.pc = "read", !.opened = TRUE, !.attempts = @ + 1,
                   !.log = Append(@, LogEntry("Open", NoMessage, NULL, "ok"))]

\* One turn of the first loop: after a failed attempt the call sleeps the
\* backoff and tries again, whatever the context; after a successful one
\* it goes on to read.
OpenLoop(u, err) ==
    IF err # nil
    THEN [u EXCEPT !.pc = "open", !.attempts = @ + 1,
                   !.slept = @ + StaticSecretBackoff,
                   !.log = Append(@, LogEntry("Open", NoMessage, NULL, "error"))]
    ELSE [u EXCEPT !.pc = "read", !.opened = TRUE, !.attempts = @ + 1,
                   !.log = Append(@, LogEntry("Open", NoMessage, NULL, "ok"))]

\* return err, with the deferred conn.Close.
StreamReturn(u, err) == [u EXCEPT !.pc = "returned", !.err = err, !.closed = TRUE]

\* One turn of the second loop on message m, the vault server answering
\* the update, if one is made, with outcome.
HandleMessage(u, m, outcome) ==
    LET read == [u EXCEPT !.log = Append(@, LogEntry("Read", m, NULL, "ok"))]
        modified == AssertBool(m.modified)
        path == AssertString(m.path)
        err == updateStaticSecret(outcome)
        updated == [read EXCEPT !.path = path.val,
                                !.log = Append(@, LogEntry("Update", m, path.val, outcome))]
    IN  IF m.depth = 0 THEN StreamReturn(read, WrapUnmarshal(ErrSyntax))
        ELSE IF m.depth < 4 THEN StreamReturn(read, WrapFormat(nil))
        ELSE IF modified.ok /\ modified.val
             THEN IF ~path.ok THEN StreamReturn(read, WrapFormat(nil))
                  ELSE IF err # nil THEN StreamReturn(updated, WrapFormat(err))
                  ELSE updated
        ELSE read

NumRead(u) == Cardinality({i \in DOMAIN u.log : u.log[i].step = "Read"})

UpdaterInit ==
    /\ InitMySQL
    /\ ugen = NoGeneration
    /\ plugin = NoPlugin
    /\ rpc = NoRpc
    /\ shell = NoShell
    /\ updater = [NoUpdater EXCEPT !.pc = "open"]

\* The caller cancels the context of the call.
CancelContext ==
    /\ updater.pc \in {"open", "read"}
    /\ ~updater.cancelled
    /\ updater' = [updater EXCEPT !.cancelled = TRUE]
    /\ UNCHANGED notUpdater

\* conn, err = updater.openWebSocketConnection(ctx): websocket.Dial fails
\* when the server is away and when the context is done.
Open ==
    /\ updater.pc = "open"
    /\ \E dialed \in BOOLEAN :
        /\ dialed => ~updater.cancelled
        /\ ~dialed => updater.attempts < MaxOpenFailures
        /\ updater' = OpenLoop(updater, openWebSocketConnection(dialed))
    /\ UNCHANGED notUpdater

\* conn.Read(ctx) fails: the connection broke or the context is done.
ReadFails ==
    /\ updater.pc = "read"
    /\ updater' = StreamReturn(
            [updater EXCEPT !.log = Append(@, LogEntry("Read", NoMessage, NULL, "error"))],
            WrapRead(ErrConnRead))
    /\ UNCHANGED notUpdater

\* conn.Read(ctx) returns a message, and the call handles it.
ReadMessage ==
    /\ updater.pc = "read"
    /\ ~updater.cancelled
    /\ NumRead(updater) < MaxMessages
    /\ \E m \in Messages, outcome \in UpdateOutcomes :
        updater' = HandleMessage(updater, m, outcome)
    /\ UNCHANGED notUpdater

UpdaterNext == CancelContext \/ Open \/ ReadFails \/ ReadMessage

UpdaterSpec == UpdaterInit /\ [][UpdaterNext]_vars

----------------------------------------------------------------------------
\* The install script: one `retry N cmd`.

\* The largest N that retry is followed with.
MaxRetries == 5

\* The values of N: none or a negative number of retries included.
RetriesArgs == (0 - 1)..MaxRetries

\* The exit statuses of a failing cmd.
FailureStatuses == {1, 2}

\* wait=$((2 ** count)).  The shell computes in 64 bits, which is exact
\* for the counts below 63 that MaxRetries allows.
Backoff(count) == 2 ^ count

\* [ "$count" -le "$retries" ]
MayRetry_Le(count, retries) == count <= retries

\* [ "$count" -lt "$retries" ]
MayRetry(count, retries) == count < retries

\* The body of the until loop after cmd has failed with status e.
RetryBody(sh, e) ==
    LET wait == Backoff(sh.count)
        count == sh.count + 1
        failed == [sh EXCEPT !.exit = e, !.wait = wait, !.count = count,
                             !.runs = Append(@, e)]
    IN  IF MayRetry(count, sh.retries)
        THEN [failed EXCEPT !.pc = "until", !.sleeps = Append(@, wait)]
        ELSE [failed EXCEPT !.pc = "exited", !.status = e]

ShellInit ==
    /\ InitMySQL
    /\ ugen = NoGeneration
    /\ plugin = NoPlugin
    /\ rpc = NoRpc
    /\ updater = NoUpdater
    /\ shell \in {[NoShell EXCEPT !.pc = "until", !.retries = n] : n \in RetriesArgs}

\* until "$@": cmd succeeds, the loop ends and retry returns 0.
CmdSucceeds ==
    /\ shell.pc = "until"
    /\ shell' = [shell EXCEPT !.pc = "returned", !.status = 0, !.runs = Append(@, 0)]
    /\ UNCHANGED notShell

\* until "$@": cmd fails, and the body of the loop runs.
CmdFails ==
    /\ shell.pc = "until"
    /\ \E e \in FailureStatuses : shell' = RetryBody(shell, e)
    /\ UNCHANGED notShell

ShellNext == CmdSucceeds \/ CmdFails

ShellSpec == ShellInit /\ [][ShellNext]_vars

----------------------------------------------------------------------------
\* Reading a call's trace.

Trace(c) == call[c].trace

Done(c) == call[c].pc = "done"

Op(c) == call[c].req.op

\* The call took the step on its statement idx (0: no statement) with result res.
Took(c, step, idx, res) ==
    \E i \in DOMAIN Trace(c) : Trace(c)[i] = Entry(step, idx, res)

TookStep(c, step) == \E i \in DOMAIN Trace(c) : Trace(c)[i].step = step

\* The call is between acquiring and releasing the lock.
InSection(c) == Trace(c) # <<>> /\ Trace(c)[Len(Trace(c))].step # "Unlock"

\* How often statement idx was executed, prepared or directly.
ExecCount(c, idx) ==
    Cardinality({i \in DOMAIN Trace(c) :
                    Trace(c)[i].step \in {"Exec", "ExecDirect"} /\ Trace(c)[i].idx = idx})

\* The prepare of statement idx was rejected with error 1295.
NotPreparable(c, idx) ==
    \E i \in DOMAIN Trace(c) : Trace(c)[i] = PrepareFailure(idx, ErrNotPreparable)

\* Statement idx of the call succeeded / failed.
Succeeded(c, idx) == Took(c, "Exec", idx, "ok") \/ Took(c, "ExecDirect", idx, "ok")

Failed(c, idx) ==
    \/ \E i \in DOMAIN Trace(c) :
          /\ Trace(c)[i].step = "Prepare" /\ Trace(c)[i].idx = idx
          /\ Trace(c)[i].res = "err" /\ Trace(c)[i].errno # ErrNotPreparable
    \/ Took(c, "Exec", idx, "err")
    \/ Took(c, "ExecDirect", idx, "err")

NumQueries(c) == Len(call[c].queries)

\* The statements of the call that are in the backend table, in order.
RowsOf(c) ==
    LET rows == SelectSeq(db, LAMBDA row : row.call = c)
    IN  [i \in DOMAIN rows |-> rows[i].query]

----------------------------------------------------------------------------
\* C1: at most one call is between acquiring and releasing the instance
\* lock, and it is the holder of the lock; every backend step of a call lies
\* between its Lock and its Unlock, so the backend steps of two calls never
\* interleave.
C1_Serialization ==
    \A c \in Calls :
        /\ InSection(c) => lock = c /\ \A d \in Calls \ {c} : ~InSection(d)
        /\ \A i \in DOMAIN Trace(c) :
              /\ (Trace(c)[i].step = "Lock") <=> (i = 1)
              /\ Trace(c)[i].step = "Unlock" => i = Len(Trace(c))
        /\ Trace(c) # <<>> /\ ~InSection(c) => Done(c)

\* Two mutating calls at once: one has executed a statement in its open
\* transaction while the other waits for the lock.
C1_Witness ==
    \E c, d \in Calls :
        /\ c # d
        /\ call[c].tx.status = "open" /\ Len(call[c].tx.pending) > 0
        /\ call[d].pc = "lock"
        /\ Op(c) = "NewUser" /\ Op(d) \in {"NewUser", "UpdateUser", "DeleteUser"}

\* C2: when a statement of a call fails, the transaction is rolled back when
\* the call has ended and no statement of the call is in the backend table.
C2_Atomicity ==
    \A c \in Calls :
        Done(c) /\ (\E k \in 1..NumQueries(c) : Failed(c, k)) =>
            /\ call[c].tx.status = "rolledback"
            /\ call[c].tx.pending = <<>>
            /\ TookStep(c, "Rollback")
            /\ RowsOf(c) = <<>>

\* The second statement of a call failed after the first had been applied.
C2_Witness ==
    \E c \in Calls :
        /\ Done(c) /\ Succeeded(c, 1) /\ Failed(c, 2)
        /\ call[c].tx.status = "rolledback"

\* C3: a call that acquired the lock has, once it has ended, released the
\* lock, and its transaction, if it opened one, is resolved: committed,
\* rolled back, or failed at commit; this on every exit path.
C3_ReturnsToIdle ==
    \A c \in Calls :
        Done(c) /\ TookStep(c, "Lock") =>
            /\ lock # c
            /\ Trace(c)[Len(Trace(c))].step = "Unlock"
            /\ call[c].defers = <<>>
            /\ call[c].tx.status \in {"none", "committed", "rolledback", "failed"}
            /\ Took(c, "BeginTx", 0, "ok") => call[c].tx.status # "none"

\* A call ended by the unexpected fault, with the lock free again and the
\* transaction rolled back.
C3_Witness ==
    \E c \in Calls :
        /\ Done(c) /\ call[c].result = "panic"
        /\ lock = 0
        /\ call[c].tx.status = "rolledback"

\* C4: in NewUser and UpdateUser, a statement whose prepare is rejected with
\* error 1295 is executed directly instead; when that execution succeeds the
\* statement has been executed exactly once, the loop goes on to the next
\* statement or to the commit, and a call all of whose statements succeeded
\* and whose commit succeeded returns success with its statements in the
\* table.
C4_Fallback ==
    \A c \in Calls :
        \A k \in 1..NumQueries(c) :
            /\ Op(c) \in {"NewUser", "UpdateUser"} /\ NotPreparable(c, k) =>
                  \/ call[c].pc = "direct" /\ call[c].qi = k /\ ExecCount(c, k) = 0
                  \/ /\ ExecCount(c, k) = 1
                     /\ Took(c, "ExecDirect", k, "ok") \/ Took(c, "ExecDirect", k, "err")
            /\ /\ Op(c) \in {"NewUser", "UpdateUser"}
               /\ NotPreparable(c, k)
               /\ Took(c, "ExecDirect", k, "ok")
               => /\ ExecCount(c, k) = 1
                  /\ ~TookStep(c, "Commit") /\ ~Done(c) =>
                        /\ call[c].tx.status = "open"
                        /\ call[c].qi > k
                        /\ SubSeq(call[c].tx.pending, 1, k) = SubSeq(call[c].queries, 1, k)
                  /\ Done(c) /\ k < NumQueries(c) =>
                        \E i \in DOMAIN Trace(c) :
                           Trace(c)[i].step = "Prepare" /\ Trace(c)[i].idx = k + 1
                  /\ Done(c) /\ (\A j \in 1..NumQueries(c) : Succeeded(c, j)) =>
                        TookStep(c, "Commit")
                  /\ Took(c, "Commit", 0, "ok") =>
                        /\ call[c].result = "ok"
                        /\ call[c].err = nil
                        /\ RowsOf(c) = call[c].queries

\* A call whose first statement went through the fallback and whose second
\* was prepared has committed both and returned success.
C4_Witness ==
    \E c \in Calls :
        /\ Done(c) /\ call[c].result = "ok" /\ NumQueries(c) = 2
        /\ NotPreparable(c, 1) /\ Took(c, "ExecDirect", 1, "ok")
        /\ Took(c, "Prepare", 2, "ok") /\ Took(c, "Exec", 2, "ok")
        /\ Len(RowsOf(c)) = 2

\* C5: when a statement fails in NewUser or UpdateUser (a prepare error
\* other than 1295, a failed prepared execution, or a failed direct
\* execution after error 1295), no later statement is executed, nothing is
\* committed, the transaction is rolled back and the call returns an error.
C5_FailureReturnsError ==
    \A c \in Calls :
        \A k \in 1..NumQueries(c) :
            Done(c) /\ Op(c) \in {"NewUser", "UpdateUser"} /\ Failed(c, k) =>
                /\ \A i \in DOMAIN Trace(c) : Trace(c)[i].idx <= k
                /\ ~TookStep(c, "Commit")
                /\ call[c].tx.status = "rolledback"
                /\ call[c].result = "error"
                /\ call[c].err # nil

\* C6: NewUser with a statement set that has no non-empty statement fails
\* with a validation error before anything else: no username, no lock, no
\* transaction, no commit.
C6_NoStatementsRejected ==
    \A c \in Calls :
        Op(c) = "NewUser" /\ Queries(call[c].req.commands) = <<>> =>
            /\ Done(c)
            /\ call[c].result = "error"
            /\ call[c].err = ErrEmptyCreationStatement
            /\ call[c].resp = ""
            /\ Trace(c) = <<>>
            /\ call[c].tx = NoTx

\* C7: NewUser returns a username exactly when its transaction committed;
\* the commit is attempted exactly when the transaction began and every
\* statement succeeded; a failed commit gives an error and the empty
\* response; after a successful commit the deferred rollback runs and leaves
\* the committed statements in the table.
C7_UsernameIffCommitted ==
    \A c \in Calls :
        Done(c) /\ Op(c) = "NewUser" =>
            /\ call[c].resp # "" <=> Took(c, "Commit", 0, "ok")
            /\ call[c].resp # "" => call[c].resp = call[c].username /\ call[c].result = "ok"
            /\ TookStep(c, "Commit") <=>
                  /\ Took(c, "BeginTx", 0, "ok")
                  /\ \A k \in 1..NumQueries(c) : Succeeded(c, k)
            /\ \A k \in 1..NumQueries(c) : ExecCount(c, k) <= 1
            /\ Took(c, "Commit", 0, "err") =>
                  /\ call[c].result = "error" /\ call[c].err # nil
                  /\ RowsOf(c) = <<>>
            /\ Took(c, "Commit", 0, "ok") =>
                  /\ TookStep(c, "Rollback")
                  /\ call[c].tx.status = "committed"
                  /\ RowsOf(c) = call[c].queries

\* A NewUser call has committed two statements and returned its username,
\* the deferred rollback having run after the commit.
C7_Witness ==
    \E c \in Calls :
        /\ Done(c) /\ Op(c) = "NewUser" /\ call[c].resp # ""
        /\ Len(RowsOf(c)) = 2
        /\ Trace(c)[Len(Trace(c)) - 1].step = "Rollback"
        /\ Trace(c)[Len(Trace(c)) - 2] = Entry("Commit", 0, "ok")

\* C8: a call whose context is cancelled before it has acquired the lock
\* never acquires it and performs no backend step; it ends with the
\* cancellation error.
C8_CancelledBeforeLock ==
    \A c \in Calls :
        call[c].cancelled /\ ~Took(c, "Lock", 0, "ok") =>
            /\ Trace(c) = <<>>
            /\ Done(c) => call[c].result = "error"

\* C9: UpdateUser with neither a password change nor an expiration change
\* returns an error and takes no step: no lock, no connection, no
\* transaction.
C9_NoChangeRejected ==
    \A c \in Calls :
        Op(c) = "UpdateUser" /\ call[c].req.password = NULL /\ call[c].req.expiration = NULL =>
            /\ Done(c)
            /\ call[c].result = "error" /\ call[c].err # nil
            /\ Trace(c) = <<>>
            /\ call[c].tx = NoTx
            /\ lock # c

\* The no-change call was rejected while another call held the lock with its
\* transaction open.
C9_Witness ==
    \E c, d \in Calls :
        /\ c # d
        /\ Op(c) = "UpdateUser" /\ call[c].req.password = NULL /\ call[c].req.expiration = NULL
        /\ Done(c) /\ call[c].result = "error"
        /\ lock = d /\ call[d].tx.status = "open"

\* C10: UpdateUser with a password change whose username or new password is
\* empty fails with the validation error and takes no step, whatever the
\* statements and the expiration change.
C10_MissingCredentialsRejected ==
    \A c \in Calls :
        /\ Op(c) = "UpdateUser" /\ call[c].req.password # NULL
        /\ call[c].req.username = "" \/ call[c].req.password = ""
        => /\ Done(c)
           /\ call[c].result = "error"
           /\ ErrMissingCredentials[1] \in Range(call[c].err)
           /\ Trace(c) = <<>>
           /\ call[c].tx = NoTx
           /\ lock # c

\* Rejected while another call held the lock: an empty username with
\* statements and an expiration change, and an empty password without.
C10_Witness ==
    \E c, d \in Calls :
        /\ c # d
        /\ lock = d /\ call[d].tx.status = "open"
        /\ Done(c) /\ call[c].result = "error" /\ Op(c) = "UpdateUser"
        /\ \/ /\ call[c].req.username = "" /\ call[c].req.password = "p1"
              /\ call[c].req.commands # <<>> /\ call[c].req.expiration # NULL
           \/ /\ call[c].req.username = "u1" /\ call[c].req.password = ""
              /\ call[c].req.commands = <<>>

\* C11: a validation error reaches the caller as it was produced at the
\* check, with nothing wrapped around it: the error of UpdateUser for an
\* empty username or an empty new password, the error of UpdateUser for a
\* request without a change, and the error of NewUser for an empty statement
\* list.
C11_ValidationVerbatim ==
    \A c \in Calls :
        Done(c) =>
            /\ /\ Op(c) = "UpdateUser" /\ call[c].req.password # NULL
               /\ call[c].req.username = "" \/ call[c].req.password = ""
               => call[c].err = ErrMissingCredentials
            /\ Op(c) = "UpdateUser" /\ call[c].req.password = NULL /\ call[c].req.expiration = NULL
               => call[c].err = ErrNoChange
            /\ Op(c) = "NewUser" /\ call[c].req.commands = <<>>
               => call[c].err = ErrEmptyCreationStatement

\* C12: UpdateUser with an expiration change and no password change returns
\* success and takes no step: no lock, no connection, no transaction, no
\* statement; the step of the call leaves the lock, the connection handle,
\* the backend table and every other call as they were.
C12_ExpirationOnlyNoOp ==
    /\ [](\A c \in Calls :
            Op(c) = "UpdateUser" /\ call[c].req.password = NULL /\ call[c].req.expiration # NULL =>
                /\ Done(c)
                /\ call[c].result = "ok" /\ call[c].err = nil
                /\ Trace(c) = <<>>
                /\ call[c].tx = NoTx
                /\ lock # c
                /\ RowsOf(c) = <<>>)
    /\ [][\A c \in Calls :
            /\ call[c].pc = "idle" /\ call'[c].req.op = "UpdateUser"
            /\ call'[c].req.password = NULL /\ call'[c].req.expiration # NULL
            => /\ lock' = lock /\ conn' = conn /\ db' = db
               /\ \A d \in Calls \ {c} : call'[d] = call[d]]_vars

\* The expiration-only call returned success while another call held the
\* lock with a statement applied in its open transaction.
C12_Witness ==
    \E c, d \in Calls :
        /\ c # d
        /\ Op(c) = "UpdateUser" /\ call[c].req.password = NULL /\ call[c].req.expiration # NULL
        /\ Done(c) /\ call[c].result = "ok"
        /\ lock = d /\ call[d].tx.status = "open" /\ Len(call[d].tx.pending) > 0

\* C13: DeleteUser with an empty statement list runs, in one transaction and
\* in this order, exactly the two statements of the built-in template, the
\* REVOKE and then the DROP USER, with the target username in the place of
\* every {{name}} and {{username}}, each at most once and the second only
\* after the first, and a successful commit puts exactly these two in the
\* table; with a non-empty list only the statements of the list are run.
C13_DefaultRevocation ==
    \A c \in Calls :
        /\ Op(c) = "DeleteUser" /\ call[c].req.commands = <<>> =>
              /\ call[c].queries =
                    << << "REVOKE ALL PRIVILEGES, GRANT OPTION FROM '", call[c].req.username, "'@'%'" >>,
                       << "DROP USER '", call[c].req.username, "'@'%'" >> >>
              /\ \A i \in DOMAIN Trace(c) :
                    /\ Trace(c)[i].step \notin {"Prepare", "ExecDirect"}
                    /\ Trace(c)[i].step = "Exec" => Trace(c)[i].idx \in {1, 2}
                    /\ Trace(c)[i].step = "Exec" /\ Trace(c)[i].idx = 2 =>
                          \E j \in 1..(i - 1) : Trace(c)[j] = Entry("Exec", 1, "ok")
                    /\ Trace(c)[i].step \in {"Exec", "Commit"} =>
                          \E j \in 1..(i - 1) : Trace(c)[j] = Entry("BeginTx", 0, "ok")
              /\ ExecCount(c, 1) <= 1 /\ ExecCount(c, 2) <= 1
              /\ Cardinality({i \in DOMAIN Trace(c) : Trace(c)[i].step = "BeginTx"}) <= 1
              /\ TookStep(c, "Commit") => Took(c, "Exec", 1, "ok") /\ Took(c, "Exec", 2, "ok")
              /\ Done(c) /\ Took(c, "Exec", 1, "ok") /\ Took(c, "Exec", 2, "ok") =>
                    TookStep(c, "Commit")
              /\ Took(c, "Commit", 0, "ok") =>
                    /\ RowsOf(c) = call[c].queries
                    /\ call[c].result = "ok"
              /\ Done(c) /\ ~Took(c, "Commit", 0, "ok") => RowsOf(c) = <<>>
        /\ Op(c) = "DeleteUser" /\ call[c].req.commands = <<TDrop>> =>
              /\ call[c].queries = << << "DROP USER '", call[c].req.username, "'@'%'" >> >>
              /\ \A i \in DOMAIN Trace(c) : Trace(c)[i].step = "Exec" => Trace(c)[i].idx = 1
              /\ Len(RowsOf(c)) <= 1

\* DeleteUser without statements has committed the REVOKE and the DROP USER
\* for u1.
C13_Witness ==
    \E c \in Calls :
        /\ Done(c) /\ Op(c) = "DeleteUser" /\ call[c].req.commands = <<>>
        /\ call[c].result = "ok"
        /\ RowsOf(c) = << << "REVOKE ALL PRIVILEGES, GRANT OPTION FROM '", "u1", "'@'%'" >>,
                          << "DROP USER '", "u1", "'@'%'" >> >>

\* C14: the statements NewUser and UpdateUser send are exactly the
\* non-empty, trimmed fragments between the ';' of the templates, in the
\* order of the templates and then of the fragments, with the placeholders
\* replaced; they are sent one after the other in this order, and a
\* successful commit puts exactly them in the table.  UpdateUser for u1 with
\* new password p1 and no statements sends the one statement
\* ALTER USER 'u1'@'%' IDENTIFIED BY 'p1'.
C14_Rendering ==
    \A c \in Calls :
        LET u == call[c].username
            pw == call[c].req.password
            entered == call[c].pc \notin {"idle", "gone"} /\ (Done(c) => Trace(c) # <<>>)
        IN  entered /\ Op(c) \in {"NewUser", "UpdateUser"} =>
            /\ Op(c) = "NewUser" /\ call[c].req.commands = <<TBlank>> => call[c].queries = <<>>
            /\ Op(c) = "NewUser" /\ call[c].req.commands = <<TBlank, TCreateGrant>> =>
                  call[c].queries =
                     << << "CREATE USER '", u, "'@'%' IDENTIFIED BY '", pw, "'" >>,
                        << "GRANT SELECT ON *.* TO '", u, "'@'%'" >> >>
            /\ Op(c) = "UpdateUser" /\ call[c].req.commands = <<>> =>
                  /\ u = "u1" /\ pw = "p1"
                  /\ call[c].queries =
                        << << "ALTER USER '", "u1", "'@'%' IDENTIFIED BY '", "p1", "'" >> >>
            /\ Op(c) = "UpdateUser" /\ call[c].req.commands = <<TRotate, TFlush>> =>
                  call[c].queries =
                     << << "SET PASSWORD FOR '", u, "'@'%' = PASSWORD('", pw, "')" >>,
                        << "FLUSH PRIVILEGES" >> >>
            /\ \A i \in DOMAIN Trace(c) :
                  Trace(c)[i].idx # 0 =>
                     /\ Trace(c)[i].idx \in 1..NumQueries(c)
                     /\ \A j \in 1..(i - 1) : Trace(c)[j].idx <= Trace(c)[i].idx
                     /\ Trace(c)[i].idx > 1 =>
                           \E j \in 1..(i - 1) :
                              /\ Trace(c)[j].idx = Trace(c)[i].idx - 1
                              /\ Trace(c)[j].res = "ok"
                              /\ Trace(c)[j].step \in {"Exec", "ExecDirect"}
            /\ call[c].tx.status = "open" =>
                  call[c].tx.pending = SubSeq(call[c].queries, 1, call[c].qi - 1)
            /\ Took(c, "Commit", 0, "ok") => RowsOf(c) = call[c].queries

\* UpdateUser for u1 with new password p1 and no statements has committed
\* the one ALTER USER statement.
C14_Witness ==
    \E c \in Calls :
        /\ Done(c) /\ Op(c) = "UpdateUser" /\ call[c].result = "ok"
        /\ call[c].req.commands = <<>>
        /\ call[c].req.username = "u1" /\ call[c].req.password = "p1"
        /\ Took(c, "Prepare", 1, "ok") /\ Took(c, "Exec", 1, "ok")
        /\ RowsOf(c) = << << "ALTER USER '", "u1", "'@'%' IDENTIFIED BY '", "p1", "'" >> >>

\* C15: Type returns the name "mysql" and no error in every state in which
\* it is called, also while another call holds the lock with its transaction
\* open; it is never made to wait; it takes no lock and no backend step, and
\* its step leaves the lock, the connection handle, the backend table and
\* every other call as they were.
C15_TypeLockFree ==
    /\ [](\A c \in Calls :
            /\ Op(c) = "Type" =>
                  /\ Done(c)
                  /\ call[c].resp = "mysql"
                  /\ call[c].err = nil /\ call[c].result = "ok"
                  /\ Trace(c) = <<>> /\ call[c].tx = NoTx /\ call[c].defers = <<>>
                  /\ lock # c
            /\ Issued(c) => ENABLED Type(c))
    /\ [][\A c \in Calls :
            call[c].pc = "idle" /\ call'[c].req.op = "Type"
            => /\ lock' = lock /\ conn' = conn /\ db' = db
               /\ \A d \in Calls \ {c} : call'[d] = call[d]]_vars

\* Type has returned "mysql" while another call held the lock with a
\* statement applied in its open transaction.
C15_Witness ==
    \E c, d \in Calls :
        /\ c # d
        /\ Op(c) = "Type" /\ Done(c) /\ call[c].resp = "mysql" /\ call[c].err = nil
        /\ lock = d /\ call[d].tx.status = "open" /\ Len(call[d].tx.pending) > 0

\* C16: generateUsername passes the maximum length 16 and the role name
\* length 4 in legacy mode, 32 and 10 otherwise, and the username it returns
\* has at most 16 characters in legacy mode and at most 32 otherwise, of which
\* at most 4 and 10 are of the role name, for every display name and role
\* name.
C16_UsernameLength ==
    ugen.pc = "done" =>
        LET limit == IF ugen.legacy THEN 16 ELSE 32
            meta == IF ugen.legacy THEN 4 ELSE 10
        IN  /\ ugen.opts.maxLength = limit
            /\ ugen.opts.roleName = meta
            /\ Len(ugen.username) <= limit
            /\ Cardinality({i \in DOMAIN ugen.username : ugen.username[i] = "r"}) <= meta

\* A legacy-mode username of exactly 16 characters, from a display name and
\* a role name longer than their lengths allow.
C16_Witness ==
    /\ ugen.pc = "done" /\ ugen.legacy /\ ugen.err = nil
    /\ Len(ugen.displayName) = 33 /\ Len(ugen.roleName) = 11
    /\ Len(ugen.username) = 16

\* C17: the username generateUsername returns ends in the whole uniqueness
\* suffix, for every display name and role name; what is cut to fit the
\* length limit is cut from the display name and role name part, and only as
\* much as the limit demands; otherwise the generation fails with an error
\* and returns no username.
C17_SuffixPreserved ==
    ugen.pc = "done" =>
        \/ ugen.err # nil /\ ugen.username = <<>>
        \/ LET n == Len(ugen.username)
               xs == {i \in DOMAIN ugen.username : ugen.username[i] = "x"}
               human == Trunc(ugen.displayName, ugen.opts.displayName)
                           \o Trunc(ugen.roleName, ugen.opts.roleName)
           IN  /\ ugen.err = nil
               /\ xs # {}
               /\ xs = (n - 3)..n
               /\ n >= 4
               /\ SubSeq(ugen.username, 1, n - 4) = SubSeq(human, 1, n - 4)
               /\ n - 4 < Len(human) => n = ugen.opts.maxLength

\* A legacy-mode username from a display name as long as the whole limit of
\* 16: it has 16 characters and ends in the suffix.
C17_Witness ==
    /\ ugen.pc = "done" /\ ugen.legacy /\ ugen.err = nil
    /\ Len(ugen.displayName) = 16
    /\ Len(ugen.username) = 16
    /\ ugen.username[16] = "x" /\ ugen.username[13] = "x" /\ ugen.username[12] = "d"

\* C18: every error an operation returns from a plugin built by New, Run
\* or RunLegacy has gone through the sanitizing middleware: the text that
\* reaches the host holds the configured password in neither run, it is the
\* same in the two runs that differ in the password alone, and an error
\* that does not quote the password is passed on as it is.
C18_ErrorsSanitized ==
    plugin.pc = "returned" =>
        /\ plugin.served.sanitizer
        /\ \A i \in 1..2 : SecretOfRun[i] \notin Range(plugin.err[i])
        /\ plugin.err[1] = plugin.err[2]
        /\ ThePassword \notin Range(plugin.raw) => plugin.err[1] = plugin.raw

\* On a plugin built by RunLegacy and initialised, DeleteUser failed with a
\* driver error that quotes the password; the host sees the placeholder in
\* both runs.
C18_Witness ==
    /\ plugin.pc = "returned" /\ plugin.entry = "RunLegacy" /\ plugin.op = "DeleteUser"
    /\ plugin.served.db.configured
    /\ ThePassword \in Range(plugin.raw)
    /\ "[password]" \in Range(plugin.err[1])
    /\ plugin.err[1] = plugin.err[2]

\* C19: a method of UnimplementedDatabaseServer that is called answers,
\* for each of the six methods and every request that reaches it, with no
\* response and an error of code Unimplemented that names the method; the
\* client gets no response either.
C19_UnimplementedSignalled ==
    rpc.server = "unimplemented" /\ rpc.called # <<>> =>
        /\ rpc.pc \in {"handled", "returned"}
        /\ rpc.resp = NULL
        /\ rpc.code = "Unimplemented" /\ rpc.code # "OK"
        /\ rpc.msg = "method " \o rpc.called[1] \o " not implemented"

\* Close, called through an interceptor on a server that implements
\* nothing, has answered Unimplemented and the client has the error.
C19_Witness ==
    /\ rpc.pc = "returned" /\ rpc.server = "unimplemented" /\ rpc.interceptor = "pass"
    /\ rpc.method = "Close" /\ rpc.called = <<"Close">>
    /\ rpc.resp = NULL /\ rpc.code = "Unimplemented"

\* C20: the service has exactly the six methods Initialize, NewUser,
\* UpdateUser, DeleteUser, Type and Close and no stream; the client method X
\* invokes the path /dbplugin.v5.Database/X; the handler run for it is the
\* one registered for X, and it calls the server's method X and no other,
\* once, with no interceptor and through an interceptor that calls on, telling
\* the interceptor the same path; it calls no method of the server when the
\* request cannot be decoded.
C20_Routing ==
    /\ Len(Database_ServiceDesc.Methods) = 6
    /\ {Database_ServiceDesc.Methods[i].MethodName : i \in 1..Len(Database_ServiceDesc.Methods)}
          = {"Initialize", "NewUser", "UpdateUser", "DeleteUser", "Type", "Close"}
    /\ Database_ServiceDesc.Streams = <<>>
    /\ rpc.pc \in {"invoked", "handled", "returned"} =>
          rpc.path = "/dbplugin.v5.Database/" \o rpc.method
    /\ rpc.pc \in {"handled", "returned"} =>
          /\ rpc.handler = "_Database_" \o rpc.method \o "_Handler"
          /\ rpc.called \in {<<>>, <<rpc.method>>}
          /\ rpc.decoded = FALSE => rpc.called = <<>> /\ rpc.code # "OK"
          /\ rpc.decoded = TRUE /\ rpc.interceptor \in {"nil", "pass"} =>
                rpc.called = <<rpc.method>>
          /\ rpc.decoded = TRUE /\ rpc.interceptor # "nil" => rpc.fullMethod = rpc.path
          /\ rpc.interceptor = "reject" => rpc.called = <<>>

\* UpdateUser, called through an interceptor on an implemented server, has
\* reached the server's UpdateUser and the client has the response.
C20_Witness ==
    /\ rpc.pc = "returned" /\ rpc.server = "implemented" /\ rpc.interceptor = "pass"
    /\ rpc.method = "UpdateUser" /\ rpc.path = "/dbplugin.v5.Database/UpdateUser"
    /\ rpc.called = <<"UpdateUser">>
    /\ rpc.resp = "UpdateUserResponse" /\ rpc.code = "OK"

\* C21 (as claimed): in all three operations a statement is executed only
\* after a prepare of it was attempted, and directly only after the prepare
\* was rejected with error 1295.
C21_SharedAlgorithm ==
    \A c \in Calls :
        Op(c) \in {"NewUser", "UpdateUser", "DeleteUser"} =>
            \A i \in DOMAIN Trace(c) :
                Trace(c)[i].step \in {"Exec", "ExecDirect"} =>
                    /\ i > 1
                    /\ Trace(c)[i - 1].step = "Prepare"
                    /\ Trace(c)[i - 1].idx = Trace(c)[i].idx

\* C21 (amended): NewUser and UpdateUser execute a statement right after
\* its prepare: the prepared statement when the prepare succeeded, the
\* statement directly when the prepare was rejected with error 1295.
\* DeleteUser never prepares: it executes every statement directly in the
\* transaction, and has no fallback step.
C21_ExecutionPaths ==
    \A c \in Calls :
        \A i \in DOMAIN Trace(c) :
            /\ Op(c) \in {"NewUser", "UpdateUser"} =>
                  /\ Trace(c)[i].step = "Exec" =>
                        i > 1 /\ Trace(c)[i - 1] = Entry("Prepare", Trace(c)[i].idx, "ok")
                  /\ Trace(c)[i].step = "ExecDirect" =>
                        i > 1 /\ Trace(c)[i - 1] = PrepareFailure(Trace(c)[i].idx, 1295)
            /\ Op(c) = "DeleteUser" =>
                  /\ Trace(c)[i].step \notin {"Prepare", "ExecDirect"}
                  /\ Trace(c)[i].step = "Exec" =>
                        /\ i > 1
                        /\ \/ Trace(c)[i].idx = 1 /\ Trace(c)[i - 1] = Entry("BeginTx", 0, "ok")
                           \/ Trace(c)[i - 1] = Entry("Exec", Trace(c)[i].idx - 1, "ok")

\* DeleteUser has executed its two statements with no prepare and
\* committed them.
C21_Witness ==
    \E c \in Calls :
        /\ Done(c) /\ Op(c) = "DeleteUser" /\ call[c].result = "ok"
        /\ Took(c, "Exec", 1, "ok") /\ Took(c, "Exec", 2, "ok")
        /\ ~TookStep(c, "Prepare")
        /\ Len(RowsOf(c)) = 2

\* C22: after reading an event of the documented example shape, with
\* "modified": "true" and "path": P, the call calls updateStaticSecret with
\* path P before it reads another message.
C22_ExampleEventUpdates ==
    \A i \in DOMAIN updater.log :
        \A p \in SecretPaths :
            (updater.log[i].step = "Read" /\ updater.log[i].msg = ExampleEvent(p)) =>
                /\ i < Len(updater.log)
                /\ updater.log[i + 1].step = "Update"
                /\ updater.log[i + 1].path = p

\* C23: when updateStaticSecret fails for a modified event, because the
\* client cannot be cloned or because the secret cannot be read, the call
\* stops streaming and returns a non-nil error.
C23_FailedUpdateReturnsError ==
    \A i \in DOMAIN updater.log :
        (updater.log[i].step = "Update" /\ updater.log[i].result # "ok") =>
            /\ i = Len(updater.log)
            /\ updater.pc = "returned"
            /\ updater.err # nil

\* C24: the call does not return before a connection was opened and never
\* returns nil.  Until an attempt to open succeeds the call is still in
\* its first loop, cancelled context or not, and has slept one backoff of
\* 10 seconds per failed attempt; a call that has returned had opened
\* the connection and returns the error of a failed read, of a malformed
\* event or of a failed update.
C24_ReturnsOnlyErrorsAfterOpen ==
    /\ updater.pc = "returned" =>
          /\ updater.opened
          /\ updater.err # nil
          /\ updater.err \in {WrapRead(ErrConnRead), WrapUnmarshal(ErrSyntax),
                               WrapFormat(nil), WrapFormat(ErrClone)}
    /\ (updater.pc # "none" /\ ~updater.opened) =>
          /\ updater.pc = "open"
          /\ updater.attempts = Len(updater.log)
          /\ \A i \in DOMAIN updater.log :
                updater.log[i] = LogEntry("Open", NoMessage, NULL, "error")
          /\ updater.slept = StaticSecretBackoff * updater.attempts
          /\ StaticSecretBackoff = 10

\* The call has returned the error built around a nil error for a
\* malformed event, after two failed attempts to open and 20 seconds of
\* backoff.
C24_Witness ==
    /\ updater.pc = "returned"
    /\ updater.attempts = 3
    /\ updater.slept = 20
    /\ updater.err = WrapFormat(nil)

\* C25: retry N cmd runs cmd until it succeeds and returns 0 at the first
\* success; after the k-th failure in a row it sleeps 2^(k-1) seconds and
\* runs cmd again if k < N, and otherwise exits the script with the status
\* of cmd.  So cmd is run at least once and at most max(N, 1) times, and
\* the sleeps are 1, 2, 4, ... seconds.
C25_Retry ==
    LET n == shell.retries
        runs == shell.runs
        k == Len(shell.runs)
        most == IF n > 1 THEN n ELSE 1
        failures == {i \in DOMAIN runs : runs[i] # 0}
    IN  shell.pc # "none" =>
            /\ k <= most
            /\ \A i \in DOMAIN runs : i < k => runs[i] # 0
            /\ \A i \in DOMAIN shell.sleeps : shell.sleeps[i] = 2 ^ (i - 1)
            /\ shell.pc = "until" =>
                  /\ failures = 1..k
                  /\ k >= 1 => k < n
                  /\ Len(shell.sleeps) = k
            /\ shell.pc = "returned" =>
                  /\ k >= 1 /\ runs[k] = 0
                  /\ shell.status = 0
                  /\ Len(shell.sleeps) = k - 1
            /\ shell.pc = "exited" =>
                  /\ k >= 1 /\ failures = 1..k
                  /\ ~(k < n) /\ k = most
                  /\ shell.status = runs[k] /\ shell.status # 0
                  /\ Len(shell.sleeps) = k - 1

\* retry 3 cmd has exited the script with status 2, the status of the
\* third run of cmd, after failures with status 1 and sleeps of 1 and 2
\* seconds.
C25_Witness ==
    /\ shell.pc = "exited"
    /\ shell.retries = 3
    /\ shell.runs = <<1, 1, 2>>
    /\ shell.sleeps = <<1, 2>>
    /\ shell.status = 2

====
